---- MODULE Spec2Model ----
(***************************************************************************)
(* cargo-lock: the serde visitor that decodes a Cargo.lock document        *)
(* (src/lockfile/parser.rs) and the `cargo lock` subcommands               *)
(* (src/bin/cargo-lock/main.rs).                                           *)
(*                                                                         *)
(* The visitor is generic over the deserializer (`D: de::Deserializer`,    *)
(* `A: de::MapAccess`).  A document is the sequence of top-level entries   *)
(* the MapAccess walks; an entry is a key and a raw, not yet decoded       *)
(* value.  What a MapAccess does when next_key is called while the value   *)
(* of the previous key was never read is decided by the implementation,    *)
(* so it is a parameter of the model (AccessModes).                        *)
(***************************************************************************)
EXTENDS Integers, Sequences, FiniteSets, TLC

VARIABLES
    file,          \* the top-level entries of the Cargo.lock being read
    access,        \* how the MapAccess in use treats an unread value
    v,             \* the frame of Visitor::visit_map
    stdoutBroken,  \* every write to standard output fails
    pc,            \* position of the cargo-lock process
    cmd,           \* the parsed subcommand
    lockfile,      \* Option<Lockfile> returned by load_lockfile
    tree,          \* Option<Tree> returned by dependency_tree
    idx,           \* names already handled by the loop of TreeCmd::run
    serialized,    \* Option<String>: lockfile_toml of TranslateCmd::run
    stdout,        \* what was written to standard output
    stderr,        \* lines written to standard error
    outFile,       \* state of the file at the translate output path
    status,        \* exit status (-1 while running)
    failure,       \* why the process ended in failure ("none": it did not)
    graphBuilds    \* number of calls of Lockfile::dependency_tree

vars == <<file, access, v, stdoutBroken, pc, cmd, lockfile, tree, idx,
          serialized, stdout, stderr, outFile, status, failure, graphBuilds>>

cliVars == <<stdoutBroken, pc, cmd, lockfile, tree, idx, serialized, stdout,
             stderr, outFile, status, failure, graphBuilds>>

(***************************************************************************)
(* Bounds of the model.                                                    *)
(***************************************************************************)
MaxKeys == 3

MaxFileKeys == 2

MaxNames == 2

(***************************************************************************)
(* Option<T>.                                                              *)
(***************************************************************************)
None == <<>>

Some(x) == <<x>>

(***************************************************************************)
(* The record model: Package, Dependency, Metadata, Patch.                 *)
(* A version of 0 in a Dependency stands for an omitted version.           *)
(***************************************************************************)
Package(n, ver, chk, deps) ==
    [name |-> n, version |-> ver, checksum |-> chk, dependencies |-> deps]

Dependency(n, ver) == [name |-> n, version |-> ver]

Versions == {"V1", "V2", "V3"}

\* ResolveVersion::default(): the newest supported revision
ResolveVersionDefault == "V3"

MetadataDefault == {}

PatchDefault == [unused |-> <<>>]

(***************************************************************************)
(* Documents.  FIELDS are the recognized keys, UnknownKeys the others.     *)
(* The raw value 0 is one that does not decode to the type its key needs.  *)
(***************************************************************************)
FIELDS == <<"package", "root", "metadata", "patch">>

UnknownKeys == {"version"}

Keys == {FIELDS[i] : i \in 1..Len(FIELDS)} \cup UnknownKeys

RawsOf(key) ==
    CASE key = "package"  -> 0..4
      [] key = "root"     -> 0..1
      [] key = "metadata" -> 0..2
      [] key = "patch"    -> 0..1
      [] OTHER            -> {1}

Entries == UNION {{[key |-> k, raw |-> r] : r \in RawsOf(k)} : k \in Keys}

Docs(n) == UNION {[1..m -> Entries] : m \in 0..n}

\* next_value::<Vec<Package>>
DecodePackages(raw) ==
    [ok |-> raw \in 1..4,
     value |->
        CASE raw = 1 -> <<Package("a", 1, TRUE, <<>>),
                          Package("b", 1, TRUE, <<Dependency("a", 1)>>)>>
          [] raw = 2 -> <<Package("a", 1, FALSE, <<>>),
                          Package("b", 1, FALSE, <<Dependency("a", 0)>>)>>
          [] raw = 3 -> <<Package("a", 1, TRUE, <<>>),
                          Package("a", 2, TRUE, <<>>),
                          Package("b", 1, TRUE, <<Dependency("a", 0)>>)>>
          [] raw = 4 -> <<Package("b", 1, FALSE, <<Dependency("c", 0)>>)>>
          [] OTHER   -> <<>>]

\* next_value::<Dependency>
DecodeRoot(raw) ==
    [ok |-> raw = 1, value |-> Dependency("b", 1)]

\* next_value::<Metadata>: a set of keys, a key being a checksum key or not
DecodeMetadata(raw) ==
    [ok |-> raw \in 1..2,
     value |->
        CASE raw = 1 -> {[checksum |-> FALSE, key |-> "note"]}
          [] raw = 2 -> {[checksum |-> TRUE, key |-> "a 1"]}
          [] OTHER   -> {}]

\* next_value::<Patch>
DecodePatch(raw) ==
    [ok |-> raw = 1, value |-> [unused |-> <<Package("p", 1, FALSE, <<>>)>>]]

(***************************************************************************)
(* Errors and results of the deserializer.                                 *)
(***************************************************************************)
NoError == [type |-> "", field |-> ""]

duplicate_field(f) == [type |-> "duplicate_field", field |-> f]

missing_field(f) == [type |-> "missing_field", field |-> f]

custom(msg) == [type |-> "custom", field |-> msg]

\* the error of a next_value whose raw value does not decode
invalid_value(f) == [type |-> "invalid_value", field |-> f]

\* the error of a next_key that finds an unread value (strict MapAccess)
unexpected_value == [type |-> "syntax", field |-> ""]

NoResult == [kind |-> "none", lockfile |-> None, err |-> NoError]

Ok(lf) == [kind |-> "ok", lockfile |-> Some(lf), err |-> NoError]

Err(e) == [kind |-> "err", lockfile |-> None, err |-> e]

Panicked == [kind |-> "panic", lockfile |-> None, err |-> NoError]

Hung == [kind |-> "hang", lockfile |-> None, err |-> NoError]

(***************************************************************************)
(* The Version Detector (ResolveVersion::detect).                          *)
(***************************************************************************)
detect(packages, metadata) ==
    LET inline == \E i \in 1..Len(packages) : packages[i].checksum
        table  == \E m \in metadata : m.checksum
        partial == \E i \in 1..Len(packages) :
                      \E j \in 1..Len(packages[i].dependencies) :
                          packages[i].dependencies[j].version = 0
    IN  IF inline /\ table
          THEN [ok |-> FALSE, version |-> "", err |-> "FormatConflict"]
        ELSE IF table
          THEN [ok |-> TRUE, version |-> "V1", err |-> ""]
        ELSE IF inline /\ partial
          THEN [ok |-> TRUE, version |-> "V2", err |-> ""]
        ELSE [ok |-> TRUE, version |-> "V3", err |-> ""]

(***************************************************************************)
(* FieldVisitor::visit_str.                                                *)
(***************************************************************************)
visit_str(value) ==
    CASE value = "package"  -> "Package"
      [] value = "root"     -> "Root"
      [] value = "metadata" -> "Metadata"
      [] value = "patch"    -> "Patch"
      [] OTHER              -> "Ignore"

(***************************************************************************)
(* The MapAccess.  pos counts the keys handed out; unread says that the    *)
(* value of the last key has not been read.                                *)
(***************************************************************************)
AccessModes == {"skip", "error", "panic", "repeat"}

\* the frame of visit_map at its entry
Start(entries, mode) ==
    [entries |-> entries, mode |-> mode, pos |-> 0, unread |-> FALSE,
     packages |-> None, root |-> None, metadata |-> None, patch |-> None,
     decoded |-> {}, detects |-> 0, pc |-> "loop", result |-> NoResult]

Idle == [Start(<<>>, "skip") EXCEPT !.pc = "idle"]

\* MapAccess::next_key
NextKey(s) ==
    IF s.unread /\ s.mode = "error" THEN [kind |-> "err", pos |-> s.pos]
    ELSE IF s.unread /\ s.mode = "panic" THEN [kind |-> "panic", pos |-> s.pos]
    ELSE IF s.unread /\ s.mode = "repeat" THEN [kind |-> "some", pos |-> s.pos]
    ELSE IF s.pos = Len(s.entries) THEN [kind |-> "none", pos |-> s.pos]
    ELSE [kind |-> "some", pos |-> s.pos + 1]

\* MapAccess::next_value, by the decoder of the expected type
NextValue(s, decoded) ==
    IF decoded.ok
      THEN [ok |-> TRUE, value |-> decoded.value,
            frame |-> [s EXCEPT !.unread = FALSE,
                                !.decoded = @ \cup {s.pos}]]
      ELSE [ok |-> FALSE, value |-> decoded.value,
            frame |-> [s EXCEPT !.unread = FALSE]]

Fail(s, e) == [s EXCEPT !.pc = "done", !.result = Err(e)]

(***************************************************************************)
(* The arms of the match in visit_map; s is the frame after next_key.      *)
(***************************************************************************)
\* FieldPackage without the duplicate check: a later section overwrites
FieldPackage_Overwrite(s) ==
    LET nv == NextValue(s, DecodePackages(s.entries[s.pos].raw))
    IN  IF nv.ok THEN [nv.frame EXCEPT !.packages = Some(nv.value)]
        ELSE Fail(nv.frame, invalid_value("package"))

FieldPackage(s) ==
    IF s.packages # None THEN Fail(s, duplicate_field("package"))
    ELSE LET nv == NextValue(s, DecodePackages(s.entries[s.pos].raw))
         IN  IF nv.ok THEN [nv.frame EXCEPT !.packages = Some(nv.value)]
             ELSE Fail(nv.frame, invalid_value("package"))

\* FieldRoot that keeps the root only when it precedes the package list
FieldRoot_BeforePackagesOnly(s) ==
    IF s.root # None THEN Fail(s, duplicate_field("root"))
    ELSE LET nv == NextValue(s, DecodeRoot(s.entries[s.pos].raw))
         IN  IF ~nv.ok THEN Fail(nv.frame, invalid_value("root"))
             ELSE IF s.packages # None THEN nv.frame
             ELSE [nv.frame EXCEPT !.root = Some(nv.value)]

FieldRoot(s) ==
    IF s.root # None THEN Fail(s, duplicate_field("root"))
    ELSE LET nv == NextValue(s, DecodeRoot(s.entries[s.pos].raw))
         IN  IF nv.ok THEN [nv.frame EXCEPT !.root = Some(nv.value)]
             ELSE Fail(nv.frame, invalid_value("root"))

FieldMetadata(s) ==
    IF s.metadata # None THEN Fail(s, duplicate_field("metadata"))
    ELSE LET nv == NextValue(s, DecodeMetadata(s.entries[s.pos].raw))
         IN  IF nv.ok THEN [nv.frame EXCEPT !.metadata = Some(nv.value)]
             ELSE Fail(nv.frame, invalid_value("metadata"))

FieldPatch(s) ==
    IF s.patch # None THEN Fail(s, duplicate_field("patch"))
    ELSE LET nv == NextValue(s, DecodePatch(s.entries[s.pos].raw))
         IN  IF nv.ok THEN [nv.frame EXCEPT !.patch = Some(nv.value)]
             ELSE Fail(nv.frame, invalid_value("patch"))

\* Field::Ignore => (): the value is not read
FieldIgnore(s) == s

\* Finish that detects the version before the metadata is unwrapped
Finish_DetectOnDefaultMetadata(s) ==
    IF s.packages = None THEN Fail(s, missing_field("package"))
    ELSE LET packages == s.packages[1]
             metadata == IF s.metadata = None THEN MetadataDefault
                         ELSE s.metadata[1]
             patch    == IF s.patch = None THEN PatchDefault ELSE s.patch[1]
             d        == detect(packages, MetadataDefault)
         IN  IF ~d.ok
               THEN [Fail(s, custom(d.err)) EXCEPT !.detects = @ + 1]
               ELSE [s EXCEPT !.detects = @ + 1,
                              !.pc = "done",
                              !.result = Ok([version  |-> d.version,
                                             root     |-> s.root,
                                             packages |-> packages,
                                             metadata |-> metadata,
                                             patch    |-> patch])]

(***************************************************************************)
(* visit_map after the loop: the mandatory section, the defaults, the      *)
(* version detection and the Lockfile.                                     *)
(***************************************************************************)
Finish(s) ==
    IF s.packages = None THEN Fail(s, missing_field("package"))
    ELSE LET packages == s.packages[1]
             metadata == IF s.metadata = None THEN MetadataDefault
                         ELSE s.metadata[1]
             patch    == IF s.patch = None THEN PatchDefault ELSE s.patch[1]
             d        == detect(packages, metadata)
         IN  IF ~d.ok
               THEN [Fail(s, custom(d.err)) EXCEPT !.detects = @ + 1]
               ELSE [s EXCEPT !.detects = @ + 1,
                              !.pc = "done",
                              !.result = Ok([version  |-> d.version,
                                             root     |-> s.root,
                                             packages |-> packages,
                                             metadata |-> metadata,
                                             patch    |-> patch])]

(***************************************************************************)
(* One turn of `while let Some(key) = next_key()?`.  A MapAccess that      *)
(* hands the same key again leaves the frame as it was: the loop never     *)
(* ends (pc "hang").                                                       *)
(***************************************************************************)
VisitLoop(s) ==
    LET k == NextKey(s)
        s1 == [s EXCEPT !.pos = k.pos, !.unread = TRUE]
        field == visit_str(s.entries[k.pos].key)
    IN  CASE k.kind = "none"  -> Finish(s)
          [] k.kind = "err"   -> Fail(s, unexpected_value)
          [] k.kind = "panic" -> [s EXCEPT !.pc = "panic", !.result = Panicked]
          [] k.kind = "some" /\ k.pos = s.pos ->
                                 [s EXCEPT !.pc = "hang", !.result = Hung]
          [] OTHER ->
                CASE field = "Package"  -> FieldPackage(s1)
                  [] field = "Root"     -> FieldRoot(s1)
                  [] field = "Metadata" -> FieldMetadata(s1)
                  [] field = "Patch"    -> FieldPatch(s1)
                  [] OTHER              -> FieldIgnore(s1)

RECURSIVE visit_map(_)
visit_map(s) == IF s.pc # "loop" THEN s ELSE visit_map(VisitLoop(s))

\* <Lockfile as Deserialize>::deserialize
deserialize(entries, mode) == visit_map(Start(entries, mode)).result

(***************************************************************************)
(* The visitor as a process: one action per turn of the loop.              *)
(***************************************************************************)
NextField == visit_str(v.entries[NextKey(v).pos].key)

Handing == v.pc = "loop" /\ NextKey(v).kind = "some" /\ NextKey(v).pos # v.pos

VisitPackage ==
    /\ Handing /\ NextField = "Package"
    /\ v' = VisitLoop(v)
    /\ UNCHANGED <<file, access, cliVars>>

VisitRoot ==
    /\ Handing /\ NextField = "Root"
    /\ v' = VisitLoop(v)
    /\ UNCHANGED <<file, access, cliVars>>

VisitMetadata ==
    /\ Handing /\ NextField = "Metadata"
    /\ v' = VisitLoop(v)
    /\ UNCHANGED <<file, access, cliVars>>

VisitPatch ==
    /\ Handing /\ NextField = "Patch"
    /\ v' = VisitLoop(v)
    /\ UNCHANGED <<file, access, cliVars>>

VisitIgnore ==
    /\ Handing /\ NextField = "Ignore"
    /\ v' = VisitLoop(v)
    /\ UNCHANGED <<file, access, cliVars>>

\* next_key does not hand out a key: it fails, panics or repeats itself
NextKeyFails ==
    /\ v.pc = "loop"
    /\ \/ NextKey(v).kind \in {"err", "panic"}
       \/ NextKey(v).kind = "some" /\ NextKey(v).pos = v.pos
    /\ v' = VisitLoop(v)
    /\ UNCHANGED <<file, access, cliVars>>

\* next_key returns None: the rest of visit_map
VisitEnd ==
    /\ v.pc = "loop" /\ NextKey(v).kind = "none"
    /\ v' = VisitLoop(v)
    /\ UNCHANGED <<file, access, cliVars>>

NextVisitor ==
    \/ VisitPackage
    \/ VisitRoot
    \/ VisitMetadata
    \/ VisitPatch
    \/ VisitIgnore
    \/ NextKeyFails
    \/ VisitEnd

NoCommand == [name |-> "", version |-> None, output |-> "-", dependencies |-> <<>>]

InitVisitor ==
    /\ file \in Docs(MaxKeys)
    /\ access \in AccessModes
    /\ v = Start(file, access)
    /\ stdoutBroken = FALSE
    /\ pc = "lib"
    /\ cmd = NoCommand
    /\ lockfile = None
    /\ tree = None
    /\ idx = 0
    /\ serialized = None
    /\ stdout = <<>>
    /\ stderr = <<>>
    /\ outFile = "old"
    /\ status = -1
    /\ failure = "none"
    /\ graphBuilds = 0

SpecVisitor == InitVisitor /\ [][NextVisitor]_vars

(***************************************************************************)
(* Lockfile::to_string: the document at lockfile.version.  The legacy root *)
(* is written for V1 only; V1 keeps checksums in the metadata table, the   *)
(* later revisions inline on each package.                                 *)
(***************************************************************************)
to_string(lf) ==
    [version  |-> lf.version,
     root     |-> IF lf.version = "V1" THEN lf.root ELSE None,
     packages |-> [i \in 1..Len(lf.packages) |->
                      [lf.packages[i] EXCEPT
                          !.checksum = @ /\ lf.version # "V1"]],
     metadata |-> IF lf.version = "V1"
                    THEN lf.metadata \cup
                         {[checksum |-> TRUE, key |-> lf.packages[i].name] :
                             i \in {j \in 1..Len(lf.packages) :
                                       lf.packages[j].checksum}}
                    ELSE lf.metadata,
     patch    |-> lf.patch]

(***************************************************************************)
(* Lockfile::dependency_tree: every dependency reference of every package  *)
(* must match exactly one package of the list.                             *)
(***************************************************************************)
Candidates(packages, r) ==
    {i \in 1..Len(packages) :
        /\ packages[i].name = r.name
        /\ r.version = 0 \/ packages[i].version = r.version}

dependency_tree(packages) ==
    LET refs == {<<i, j>> \in (1..Len(packages)) \X (1..2) :
                    j <= Len(packages[i].dependencies)}
        cands(ref) == Candidates(packages, packages[ref[1]].dependencies[ref[2]])
        bad  == {ref \in refs : Cardinality(cands(ref)) # 1}
        first == CHOOSE ref \in bad :
                    \A o \in bad : \/ ref[1] < o[1]
                                   \/ ref[1] = o[1] /\ ref[2] <= o[2]
    IN  IF bad = {}
          THEN [ok |-> TRUE, err |-> "",
                edges |-> {<<ref[1], CHOOSE c \in cands(ref) : TRUE>> : ref \in refs}]
          ELSE [ok |-> FALSE,
                err |-> IF cands(first) = {} THEN "UnresolvedDependency"
                        ELSE "AmbiguousDependency",
                edges |-> {}]

\* lockfile.packages.iter().find(|pkg| pkg.name == *dep): 0 when there is none
Find(packages, dep) ==
    IF \E i \in 1..Len(packages) : packages[i].name = dep
      THEN CHOOSE i \in 1..Len(packages) :
              /\ packages[i].name = dep
              /\ \A j \in 1..(i - 1) : packages[j].name # dep
      ELSE 0

\* tree.nodes()[&package.into()]: the node of the package's identity
NodeIndex(packages, i) ==
    CHOOSE n \in 1..i :
        /\ packages[n].name = packages[i].name
        /\ packages[n].version = packages[i].version
        /\ \A m \in 1..(n - 1) : \/ packages[m].name # packages[i].name
                                 \/ packages[m].version # packages[i].version

(***************************************************************************)
(* The command line: the subcommands gumdrop can hand to main.             *)
(***************************************************************************)
Names == {"a", "b", "z"}

NameLists == UNION {[1..n -> Names] : n \in 0..MaxNames}

ListCmds ==
    {[name |-> "list", version |-> None, output |-> "-", dependencies |-> <<>>]}

TranslateCmds ==
    {[name |-> "translate", version |-> ver, output |-> o, dependencies |-> <<>>] :
        ver \in {None} \cup {Some(x) : x \in Versions}, o \in {"-", "out.lock"}}

TreeCmds ==
    {[name |-> "tree", version |-> None, output |-> "-", dependencies |-> d] :
        d \in NameLists}

Commands == ListCmds \cup TranslateCmds \cup TreeCmds

\* eprintln!("*** error: {}", ..)
ErrorLine(msg, arg) == [marker |-> TRUE, msg |-> msg, arg |-> arg]

\* any other line on standard error
PlainLine(msg) == [marker |-> FALSE, msg |-> msg, arg |-> ""]

\* exit(code), or main returning (code 0), or a panic (code 101)
Exit(code, lines, why) ==
    /\ status' = code
    /\ stderr' = stderr \o lines
    /\ failure' = why
    /\ pc' = "exit"

Panic == Exit(101, <<PlainLine("thread 'main' panicked")>>, "panic")

(***************************************************************************)
(* main.                                                                   *)
(***************************************************************************)
Main ==
    /\ pc = "main"
    /\ \/ /\ Exit(1, <<ErrorLine("arguments", ""), PlainLine("USAGE:"),
                       PlainLine("usage")>>, "args")
          /\ UNCHANGED cmd
       \/ /\ \E c \in Commands : cmd' = c
          /\ pc' = "load"
          /\ UNCHANGED <<status, stderr, failure>>
    /\ UNCHANGED <<file, access, v, stdoutBroken, lockfile, tree, idx,
                   serialized, stdout, outFile, graphBuilds>>

\* load_lockfile of a run that creates its output file before it loads
LoadLockfile_CreatesOutputFirst ==
    /\ pc = "load"
    /\ outFile' = IF cmd.name = "translate" /\ cmd.output # "-"
                    THEN "truncated" ELSE outFile
    /\ \/ /\ Exit(1, <<ErrorLine("io", "read")>>, "load")
          /\ UNCHANGED v
       \/ /\ v' = Start(file, access)
          /\ pc' = "loading"
          /\ UNCHANGED <<status, stderr, failure>>
    /\ UNCHANGED <<file, access, stdoutBroken, cmd, lockfile, tree, idx,
                   serialized, stdout, graphBuilds>>

(***************************************************************************)
(* load_lockfile: Lockfile::load reads the file and deserializes it.       *)
(***************************************************************************)
LoadLockfile ==
    /\ pc = "load"
    /\ \/ /\ Exit(1, <<ErrorLine("io", "read")>>, "load")
          /\ UNCHANGED v
       \/ /\ v' = Start(file, access)
          /\ pc' = "loading"
          /\ UNCHANGED <<status, stderr, failure>>
    /\ UNCHANGED <<file, access, stdoutBroken, cmd, lockfile, tree, idx,
                   serialized, stdout, outFile, graphBuilds>>

LoadReturn ==
    /\ pc = "loading"
    /\ v.pc \in {"done", "panic"}
    /\ \/ /\ v.result.kind = "ok"
          /\ lockfile' = v.result.lockfile
          /\ pc' = cmd.name
          /\ UNCHANGED <<status, stderr, failure>>
       \/ /\ v.result.kind = "err"
          /\ Exit(1, <<ErrorLine(v.result.err.type, v.result.err.field)>>, "load")
          /\ UNCHANGED lockfile
       \/ /\ v.result.kind = "panic"
          /\ Panic
          /\ UNCHANGED lockfile
    /\ UNCHANGED <<file, access, v, stdoutBroken, cmd, tree, idx, serialized,
                   stdout, outFile, graphBuilds>>

\* ListCmd::run that resolves the dependency graph before it prints
ListRun_BuildsGraph ==
    /\ pc = "list"
    /\ graphBuilds' = graphBuilds + 1
    /\ LET packages == lockfile[1].packages
           t == dependency_tree(packages)
       IN  IF ~t.ok
             THEN Exit(1, <<ErrorLine(t.err, "")>>, "graph") /\ UNCHANGED stdout
           ELSE IF stdoutBroken /\ packages # <<>>
             THEN Panic /\ UNCHANGED stdout
             ELSE /\ stdout' = stdout \o
                       [i \in 1..Len(packages) |->
                           [kind |-> "package", name |-> packages[i].name,
                            index |-> packages[i].version]]
                  /\ Exit(0, <<>>, "none")
    /\ UNCHANGED <<file, access, v, stdoutBroken, cmd, lockfile, tree, idx,
                   serialized, outFile>>

(***************************************************************************)
(* ListCmd::run, after load_lockfile.                                      *)
(***************************************************************************)
ListRun ==
    /\ pc = "list"
    /\ LET packages == lockfile[1].packages
       IN  IF stdoutBroken /\ packages # <<>>
             THEN Panic /\ UNCHANGED stdout
             ELSE /\ stdout' = stdout \o
                       [i \in 1..Len(packages) |->
                           [kind |-> "package", name |-> packages[i].name,
                            index |-> packages[i].version]]
                  /\ Exit(0, <<>>, "none")
    /\ UNCHANGED <<file, access, v, stdoutBroken, cmd, lockfile, tree, idx,
                   serialized, outFile, graphBuilds>>

(***************************************************************************)
(* TranslateCmd::run, after load_lockfile.                                 *)
(***************************************************************************)
TranslateSerialize ==
    /\ pc = "translate"
    /\ LET version == IF cmd.version = None THEN ResolveVersionDefault
                      ELSE cmd.version[1]
           lf == [lockfile[1] EXCEPT !.version = version]
       IN  /\ lockfile' = Some(lf)
           /\ serialized' = Some(to_string(lf))
    /\ pc' = "translate_write"
    /\ UNCHANGED <<file, access, v, stdoutBroken, cmd, tree, idx, stdout,
                   stderr, outFile, status, failure, graphBuilds>>

TranslateWrite ==
    /\ pc = "translate_write"
    /\ IF cmd.output = "-"
         THEN /\ IF stdoutBroken
                   THEN Panic /\ UNCHANGED stdout
                   ELSE /\ stdout' = Append(stdout,
                              [kind |-> "toml", name |-> serialized[1].version,
                               index |-> 0])
                        /\ Exit(0, <<>>, "none")
              /\ UNCHANGED outFile
         ELSE /\ \/ outFile' = "new" /\ Exit(0, <<>>, "none")
                 \/ /\ outFile' \in {outFile, "truncated"}
                    /\ Exit(1, <<ErrorLine("io", "write")>>, "write")
              /\ UNCHANGED stdout
    /\ UNCHANGED <<file, access, v, stdoutBroken, cmd, lockfile, tree, idx,
                   serialized, graphBuilds>>

(***************************************************************************)
(* TreeCmd::run, after load_lockfile.                                      *)
(***************************************************************************)
TreeBuild ==
    /\ pc = "tree"
    /\ graphBuilds' = graphBuilds + 1
    /\ LET t == dependency_tree(lockfile[1].packages)
       IN  IF t.ok
             THEN /\ tree' = Some(t)
                  /\ pc' = "tree_names"
                  /\ UNCHANGED <<status, stderr, failure>>
             ELSE /\ Exit(1, <<ErrorLine(t.err, "")>>, "graph")
                  /\ UNCHANGED tree
    /\ UNCHANGED <<file, access, v, stdoutBroken, cmd, lockfile, idx,
                   serialized, stdout, outFile>>

TreeNames ==
    /\ pc = "tree_names"
    /\ IF cmd.dependencies = <<>>
         THEN Exit(1, <<ErrorLine("no dependency names given", "")>>, "nonames")
         ELSE pc' = "tree_loop" /\ UNCHANGED <<status, stderr, failure>>
    /\ UNCHANGED <<file, access, v, stdoutBroken, cmd, lockfile, tree, idx,
                   serialized, stdout, outFile, graphBuilds>>

\* TreeCmd::run that passes over a name matching no package
TreeLoop_SkipUnmatched ==
    /\ pc = "tree_loop"
    /\ idx < Len(cmd.dependencies)
    /\ LET dep == cmd.dependencies[idx + 1]
           packages == lockfile[1].packages
           blank == IF idx > 0
                      THEN Append(stdout, [kind |-> "blank", name |-> "", index |-> 0])
                      ELSE stdout
           found == Find(packages, dep)
       IN  IF idx > 0 /\ stdoutBroken
             THEN Panic /\ UNCHANGED <<stdout, idx>>
           ELSE IF found = 0
             THEN /\ stdout' = blank
                  /\ idx' = idx + 1
                  /\ UNCHANGED <<pc, status, stderr, failure>>
           ELSE IF stdoutBroken
             THEN /\ stdout' = blank
                  /\ Panic
                  /\ UNCHANGED idx
           ELSE /\ stdout' = Append(blank,
                        [kind |-> "tree", name |-> dep,
                         index |-> NodeIndex(packages, found)])
                /\ idx' = idx + 1
                /\ UNCHANGED <<pc, status, stderr, failure>>
    /\ UNCHANGED <<file, access, v, stdoutBroken, cmd, lockfile, tree,
                   serialized, outFile, graphBuilds>>

\* one turn of `for (i, dep) in self.dependencies.iter().enumerate()`
TreeLoop ==
    /\ pc = "tree_loop"
    /\ idx < Len(cmd.dependencies)
    /\ LET dep == cmd.dependencies[idx + 1]
           packages == lockfile[1].packages
           blank == IF idx > 0
                      THEN Append(stdout, [kind |-> "blank", name |-> "", index |-> 0])
                      ELSE stdout
           found == Find(packages, dep)
       IN  IF idx > 0 /\ stdoutBroken
             THEN Panic /\ UNCHANGED <<stdout, idx>>
           ELSE IF found = 0
             THEN /\ stdout' = blank
                  /\ Exit(1, <<ErrorLine("invalid dependency name", dep)>>, "badname")
                  /\ UNCHANGED idx
           ELSE IF stdoutBroken
             THEN /\ stdout' = blank
                  /\ Panic
                  /\ UNCHANGED idx
           ELSE /\ stdout' = Append(blank,
                        [kind |-> "tree", name |-> dep,
                         index |-> NodeIndex(packages, found)])
                /\ idx' = idx + 1
                /\ UNCHANGED <<pc, status, stderr, failure>>
    /\ UNCHANGED <<file, access, v, stdoutBroken, cmd, lockfile, tree,
                   serialized, outFile, graphBuilds>>

TreeReturn ==
    /\ pc = "tree_loop"
    /\ idx = Len(cmd.dependencies)
    /\ Exit(0, <<>>, "none")
    /\ UNCHANGED <<file, access, v, stdoutBroken, cmd, lockfile, tree, idx,
                   serialized, stdout, outFile, graphBuilds>>

Init ==
    /\ file \in Docs(MaxFileKeys)
    /\ access \in AccessModes
    /\ v = Idle
    /\ stdoutBroken \in BOOLEAN
    /\ pc = "main"
    /\ cmd = NoCommand
    /\ lockfile = None
    /\ tree = None
    /\ idx = 0
    /\ serialized = None
    /\ stdout = <<>>
    /\ stderr = <<>>
    /\ outFile = "old"
    /\ status = -1
    /\ failure = "none"
    /\ graphBuilds = 0

Next ==
    \/ Main
    \/ LoadLockfile
    \/ NextVisitor
    \/ LoadReturn
    \/ ListRun
    \/ TranslateSerialize
    \/ TranslateWrite
    \/ TreeBuild
    \/ TreeNames
    \/ TreeLoop
    \/ TreeReturn

Spec == Init /\ [][Next]_vars

(***************************************************************************)
(* Vocabulary of the properties.                                           *)
(***************************************************************************)
Recognized(key) == visit_str(key) # "Ignore"

Count(entries, key) == Cardinality({i \in 1..Len(entries) : entries[i].key = key})

AtMostOnce(entries) ==
    \A i \in 1..Len(FIELDS) : Count(entries, FIELDS[i]) <= 1

AllDecodable(entries) ==
    \A i \in 1..Len(entries) : Recognized(entries[i].key) => entries[i].raw # 0

RemoveUnknown(entries) == SelectSeq(entries, LAMBDA e : Recognized(e.key))

FirstIndex(entries, key) ==
    CHOOSE i \in 1..Len(entries) :
        /\ entries[i].key = key
        /\ \A j \in 1..(i - 1) : entries[j].key # key

\* the value a recognized entry decodes to, as the accumulator holds it
DecodedValue(e) ==
    CASE e.key = "package"  -> Some(DecodePackages(e.raw).value)
      [] e.key = "root"     -> Some(DecodeRoot(e.raw).value)
      [] e.key = "metadata" -> Some(DecodeMetadata(e.raw).value)
      [] e.key = "patch"    -> Some(DecodePatch(e.raw).value)

Accumulated(key) ==
    CASE key = "package"  -> v.packages
      [] key = "root"     -> v.root
      [] key = "metadata" -> v.metadata
      [] key = "patch"    -> v.patch

\* the keys next_key has handed to the visitor so far
Handed == [i \in 1..v.pos |-> v.entries[i].key]

RepeatedAt(i) ==
    /\ Recognized(Handed[i])
    /\ \E j \in 1..(i - 1) : Handed[j] = Handed[i]

Perms(n) == {p \in [1..n -> 1..n] : \A i, j \in 1..n : p[i] = p[j] => i = j}

Permute(entries, p) == [i \in 1..Len(entries) |-> entries[p[i]]]

\* C1: whenever the keys handed to the visitor hold a recognized key for the
\* second time, the visit has ended right there with the duplicate_field
\* error naming that key, there is no Lockfile, the value of the second
\* occurrence was not decoded and the accumulator still holds the first.
C1_DuplicateSection ==
    \A i \in 1..v.pos :
        RepeatedAt(i) =>
            /\ i = v.pos
            /\ v.pc = "done"
            /\ v.result = Err(duplicate_field(Handed[i]))
            /\ v.result.lockfile = None
            /\ i \notin v.decoded
            /\ Accumulated(Handed[i]) =
                   DecodedValue(v.entries[FirstIndex(v.entries, Handed[i])])

C1_Witness ==
    /\ v.pc = "done"
    /\ v.pos = 3
    /\ RepeatedAt(3)
    /\ v.result.err.type = "duplicate_field"

\* C2: a document without a package key, its recognized keys at most once and
\* decodable, ends in missing_field("package"), with every key consumed and
\* the version detector never called.
C2_MissingSection ==
    (/\ v.pc \in {"done", "panic", "hang"}
     /\ Count(v.entries, "package") = 0
     /\ AtMostOnce(v.entries)
     /\ AllDecodable(v.entries))
        => /\ v.result = Err(missing_field("package"))
           /\ v.pos = Len(v.entries)
           /\ v.detects = 0

\* C3: the outcome of a document is the outcome of the document without its
\* unknown keys.
C3_UnknownIgnored ==
    v.pc \in {"done", "panic", "hang"}
        => v.result = deserialize(RemoveUnknown(v.entries), v.mode)

\* C4: a document whose recognized keys occur at most once and decode has
\* the same outcome in every order of its top-level keys.
C4_OrderInsignificant ==
    (/\ v.pc \in {"done", "panic", "hang"}
     /\ AtMostOnce(v.entries)
     /\ AllDecodable(v.entries))
        => \A p \in Perms(Len(v.entries)) :
               deserialize(Permute(v.entries, p), v.mode) = v.result

C4_Witness ==
    /\ v.pc = "done"
    /\ v.result.kind = "ok"
    /\ Len(v.entries) = 3
    /\ v.entries[3].key = "package"
    /\ v.entries[1].key = "root"
    /\ v.root # None

\* C6: before the visit ends there is no result and no detection; a Lockfile
\* is returned only with every key consumed and one detection, and holds
\* exactly the decoded package and root sections, the decoded or empty
\* metadata and patch, and the version detected from those packages and
\* that metadata; every other end has no Lockfile, and a failed detection
\* is the error returned.
C6_AllOrNothing ==
    /\ v.pc \in {"idle", "loop"} => v.result = NoResult /\ v.detects = 0
    /\ v.detects \in {0, 1}
    /\ v.detects = 1 => v.pc = "done" /\ v.pos = Len(v.entries)
    /\ v.result.kind # "ok" => v.result.lockfile = None
    /\ v.detects = 1 /\ v.result.kind # "ok"
          => v.result = Err(custom("FormatConflict"))
    /\ v.result.kind = "ok" =>
          LET lf == v.result.lockfile[1]
              e == v.entries
              section(key) == e[FirstIndex(e, key)]
          IN  /\ v.pc = "done" /\ v.detects = 1 /\ v.pos = Len(e)
              /\ AtMostOnce(e)
              /\ Count(e, "package") = 1
              /\ lf.packages = DecodePackages(section("package").raw).value
              /\ lf.root = IF Count(e, "root") = 0 THEN None
                           ELSE Some(DecodeRoot(section("root").raw).value)
              /\ lf.metadata = IF Count(e, "metadata") = 0 THEN {}
                               ELSE DecodeMetadata(section("metadata").raw).value
              /\ lf.patch = IF Count(e, "patch") = 0 THEN [unused |-> <<>>]
                            ELSE DecodePatch(section("patch").raw).value
              /\ detect(lf.packages, lf.metadata).ok
              /\ lf.version = detect(lf.packages, lf.metadata).version

C6_Witness ==
    /\ v.result.kind = "ok"
    /\ v.root # None
    /\ v.metadata # None
    /\ v.patch = None
    /\ v.result.lockfile[1].version = "V1"

(***************************************************************************)
(* The subcommands.                                                        *)
(***************************************************************************)
Matches(name) ==
    \E i \in 1..Len(lockfile[1].packages) : lockfile[1].packages[i].name = name

\* the first of the given names that matches no package (0: all match)
FirstUnmatched ==
    LET names == cmd.dependencies
        un == {j \in 1..Len(names) : ~Matches(names[j])}
    IN  IF un = {} THEN 0 ELSE CHOOSE j \in un : \A k \in un : j <= k

IsTree(e) == e.kind = "tree"

Trees == SelectSeq(stdout, IsTree)

InvalidName(name) == <<ErrorLine("invalid dependency name", name)>>

\* C5: translate serializes at the detected version unless another version
\* was requested, and at the requested version otherwise.
C5_DetectedVersionHonored ==
    serialized # None =>
        serialized[1].version =
            IF cmd.version = None THEN v.result.lockfile[1].version
            ELSE cmd.version[1]

\* C7 as stated: with the lockfile loaded and standard output writable, tree
\* ends in an error when no names are given, and when a given name matches no
\* package it ends in the error naming the first such name, after one tree
\* for each name before it.
C7_UnmatchedNameReported ==
    (cmd.name = "tree" /\ lockfile # None /\ ~stdoutBroken /\ pc = "exit") =>
        /\ cmd.dependencies = <<>> => status # 0
        /\ FirstUnmatched # 0 =>
              /\ status # 0
              /\ stderr = InvalidName(cmd.dependencies[FirstUnmatched])
              /\ Len(Trees) = FirstUnmatched - 1

\* C7 amended: once the lockfile is loaded and the dependency graph built,
\* tree ends in an error when no names are given; otherwise the trees written
\* are those of the names in the order given, each rooted at a package of
\* that name, none at or after the first name matching no package; the run
\* ends well only if every name matched, and at the first unmatched name it
\* ends in an error, which names it unless standard output failed first.
C7_TreePerNameInOrder ==
    (cmd.name = "tree" /\ lockfile # None /\ tree # None) =>
        LET names == cmd.dependencies
            packages == lockfile[1].packages
        IN  /\ Len(Trees) = idx
            /\ Len(Trees) <= Len(names)
            /\ \A k \in 1..Len(Trees) :
                  /\ Trees[k].name = names[k]
                  /\ packages[Trees[k].index].name = names[k]
            /\ FirstUnmatched # 0 => Len(Trees) < FirstUnmatched
            /\ pc = "exit" =>
                  /\ names = <<>> =>
                        /\ status = 1
                        /\ stderr = <<ErrorLine("no dependency names given", "")>>
                        /\ stdout = <<>>
                  /\ failure = "none" =>
                        /\ status = 0
                        /\ names # <<>>
                        /\ FirstUnmatched = 0
                        /\ Len(Trees) = Len(names)
                  /\ FirstUnmatched # 0 =>
                        /\ status # 0
                        /\ failure \in {"badname", "panic"}
                        /\ failure = "panic" => stdoutBroken
                  /\ failure = "badname" =>
                        /\ status = 1
                        /\ FirstUnmatched # 0
                        /\ stderr = InvalidName(names[FirstUnmatched])
                        /\ Len(Trees) = FirstUnmatched - 1

C7_Witness ==
    /\ cmd.name = "tree"
    /\ pc = "exit"
    /\ failure = "badname"
    /\ Len(cmd.dependencies) = 2
    /\ Len(Trees) = 1

\* C8: list and translate never build the dependency graph and, the lockfile
\* loaded, end well unless writing their output fails; tree, on a lockfile
\* whose graph does not build, ends in the graph error with nothing written
\* to standard output.
C8_GraphErrorsOnlyForTree ==
    /\ cmd.name \in {"list", "translate"} =>
          /\ graphBuilds = 0
          /\ tree = None
          /\ failure # "graph"
          /\ (pc = "exit" /\ lockfile # None) =>
                /\ failure \in {"none", "panic", "write"}
                /\ failure = "none" <=> status = 0
                /\ failure = "panic" => stdoutBroken
                /\ failure = "write" => cmd.output # "-"
    /\ (/\ cmd.name = "tree"
        /\ lockfile # None
        /\ pc # "tree"
        /\ ~dependency_tree(lockfile[1].packages).ok) =>
          /\ pc = "exit"
          /\ status = 1
          /\ failure = "graph"
          /\ stdout = <<>>
          /\ tree = None

C8_Witness ==
    /\ cmd.name = "list"
    /\ pc = "exit"
    /\ status = 0
    /\ ~dependency_tree(lockfile[1].packages).ok
    /\ Len(stdout) = Len(lockfile[1].packages)

\* C9: a run that fails ends with a non-zero status and exactly one line on
\* standard error, which carries the marker.
C9_SingleDiagnostic ==
    /\ failure # "none" => pc = "exit" /\ status # 0
    /\ (pc = "exit" /\ status # 0) =>
          /\ Len(stderr) = 1
          /\ stderr[1].marker

\* C10: translate writes nothing to standard output or to the output path
\* before the lockfile is loaded, parsed, version-detected and serialized;
\* a run whose load fails ends with no output and the output file as it was.
C10_NoPartialOutput ==
    cmd.name = "translate" =>
        /\ (stdout # <<>> \/ outFile # "old") =>
              /\ v.result.kind = "ok"
              /\ v.detects = 1
              /\ lockfile # None
              /\ serialized # None
              /\ pc = "exit"
        /\ (pc = "exit" /\ lockfile = None) =>
              /\ status # 0
              /\ stdout = <<>>
              /\ outFile = "old"

C10_Witness ==
    /\ cmd.name = "translate"
    /\ cmd.output = "out.lock"
    /\ pc = "exit"
    /\ failure = "load"
    /\ v.result.kind = "err"

====
